---------------------------- MODULE Spec2Model ----------------------------
(***************************************************************************)
(* A model of the notes worker (src/src/index.ts): the Durable Object      *)
(* NotesDO, its SQLite table `notes`, its request decoder parseInput and   *)
(* its five handlers.                                                      *)
(*                                                                         *)
(* JSON values are tagged records, so that values of different JavaScript  *)
(* types can be told apart and compared.  A handler is one action per      *)
(* synchronous stretch of its code: a handler that reaches an `await`      *)
(* between two statements on the table is cut at that `await`, and other   *)
(* requests may run in between.                                            *)
(***************************************************************************)
EXTENDS Integers, Sequences, FiniteSets, TLC

(***************************************************************************)
(* JSON and JavaScript values                                              *)
(***************************************************************************)
Undefined == [k |-> "undefined"]
JNull == [k |-> "null"]
JStr(s) == [k |-> "string", s |-> s]
JNum(n) == [k |-> "number", n |-> n]
JBool(b) == [k |-> "boolean", b |-> b]
JObj(f) == [k |-> "object", f |-> f]
JArr(f) == [k |-> "array", f |-> f]
EmptyObj == JObj(<<>>)

\* JavaScript truthiness (`!v`, `v || d`, `v ? a : b`).
Truthy(v) ==
  CASE v.k = "undefined" -> FALSE
    [] v.k = "null" -> FALSE
    [] v.k = "string" -> v.s # ""
    [] v.k = "number" -> v.n # 0
    [] v.k = "boolean" -> v.b
    [] OTHER -> TRUE

\* typeof v === 'object'
TypeofObject(v) == v.k \in {"object", "array", "null"}

\* Property access v[name] on a value that is not null or undefined.
Field(v, name) ==
  IF v.k \in {"object", "array"} /\ name \in DOMAIN v.f THEN v.f[name] ELSE Undefined

\* Optional chaining v?.name
OptField(v, name) ==
  IF v.k \in {"undefined", "null"} THEN Undefined ELSE Field(v, name)

(***************************************************************************)
(* Requests.  A text (the `input` query parameter, the body) is absent,    *)
(* empty, not JSON, or the JSON encoding of a value; JSON.parse and        *)
(* request.json() throw on everything but the last.                        *)
(***************************************************************************)
Absent == [t |-> "absent"]
EmptyText == [t |-> "empty"]
Garbage == [t |-> "garbage"]
Json(v) == [t |-> "json", val |-> v]

JSONparse(text) ==
  IF text.t = "json" THEN [ok |-> TRUE, val |-> text.val] ELSE [ok |-> FALSE]

JsonTypes == {"application/json", "application/json; charset=utf-8"}

\* contentType.includes("application/json")
IsJsonContentType(ctype) == ctype \in JsonTypes

EmptyInput == JObj([input |-> EmptyObj])

\* Lines 117-125: the batch envelope, the `input` field, the wrapping.
WrapInputFirst(isBatch, rawData) ==
  IF Truthy(rawData) /\ Field(rawData, "input") # Undefined
  THEN rawData
  ELSE IF isBatch /\ Truthy(rawData) /\ TypeofObject(rawData)
          /\ Field(rawData, "0") # Undefined
       THEN JObj([input |-> Field(rawData, "0")])
       ELSE JObj([input |-> rawData])

WrapRaw(isBatch, rawData) ==
  IF isBatch /\ Truthy(rawData) /\ TypeofObject(rawData)
     /\ Field(rawData, "0") # Undefined
  THEN JObj([input |-> Field(rawData, "0")])
  ELSE IF Truthy(rawData) /\ Field(rawData, "input") # Undefined
       THEN rawData
       ELSE JObj([input |-> rawData])

\* A catch block that returns `{}` instead of `{ input: {} }`.
parseInputBare(r) ==
  IF r.method = "GET"
  THEN IF r.query.t \in {"absent", "empty"}
       THEN EmptyInput
       ELSE IF JSONparse(r.query).ok
            THEN WrapRaw(r.batch, JSONparse(r.query).val)
            ELSE EmptyObj
  ELSE IF r.method = "POST" /\ IsJsonContentType(r.ctype) /\ JSONparse(r.body).ok
       THEN WrapRaw(r.batch, JSONparse(r.body).val)
       ELSE EmptyObj

\* parseInput: every throw inside the try block ends in `{ input: {} }`.
parseInput(r) ==
  IF r.method = "GET"
  THEN IF r.query.t \in {"absent", "empty"}
       THEN EmptyInput
       ELSE IF JSONparse(r.query).ok
            THEN WrapRaw(r.batch, JSONparse(r.query).val)
            ELSE EmptyInput
  ELSE IF r.method = "POST"
       THEN IF IsJsonContentType(r.ctype) /\ JSONparse(r.body).ok
            THEN WrapRaw(r.batch, JSONparse(r.body).val)
            ELSE EmptyInput
       ELSE EmptyInput

(***************************************************************************)
(* The zod schemas: the issues a value raises; parse throws a ZodError     *)
(* when there is one.                                                      *)
(***************************************************************************)
StringIssue(v, name, required) ==
  IF Field(v, name) = Undefined
  THEN IF required = "" THEN {} ELSE {required}
  ELSE IF Field(v, name).k = "string" THEN {}
       ELSE {"Expected string"}

BooleanIssue(v, name) ==
  IF Field(v, name) = Undefined \/ Field(v, name).k = "boolean" THEN {}
  ELSE {"Expected boolean"}

createNoteSchemaIssues(v) ==
  IF v.k # "object" THEN {"Expected object"}
  ELSE StringIssue(v, "title", "Title is required")
         \cup StringIssue(v, "content", "Content is required")
         \cup StringIssue(v, "category", "")
         \cup BooleanIssue(v, "published")

updateNoteSchemaIssues(v) ==
  IF v.k # "object" THEN {"Expected object"}
  ELSE StringIssue(v, "title", "")
         \cup StringIssue(v, "content", "")
         \cup StringIssue(v, "category", "")
         \cup BooleanIssue(v, "published")

(***************************************************************************)
(* State                                                                   *)
(***************************************************************************)
VARIABLES
  notes,    \* the table `notes`: id -> row
  nextId,   \* how many ids crypto.randomUUID() has handed to stored notes
  now,      \* the clock read by new Date()
  pc,       \* per request slot: "idle", "insert", "write" or "done"
  req,      \* per request slot: the operation and the request in flight
  resp,     \* per request slot: the response, once answered
  fresh,    \* the note made by the request answered last, if that was a create
  deleted   \* the notes deleteNote has removed: id and last title

vars == <<notes, nextId, now, pc, req, resp, fresh, deleted>>

Procs == {1, 2}

\* The values crypto.randomUUID() returns, in the order it returns them.
UUIDs == <<"u1", "u2", "u3", "u4", "u5">>

NoReq == [op |-> "none"]
NoResp == [status |-> 0]
NoFresh == [id |-> ""]

Init ==
  /\ notes = <<>>
  /\ nextId = 1
  /\ now = 0
  /\ pc = [p \in Procs |-> "idle"]
  /\ req = [p \in Procs |-> NoReq]
  /\ resp = [p \in Procs |-> NoResp]
  /\ fresh = NoFresh
  /\ deleted = {}

(***************************************************************************)
(* Responses                                                               *)
(***************************************************************************)
formatTRPCResponse(result, isBatch) ==
  [status |-> 200, code |-> "OK", message |-> "", data |-> result, batch |-> isBatch]

formatTRPCErrorResponse(code, message, status, isBatch) ==
  [status |-> status, code |-> code, message |-> message, data |-> Undefined,
   batch |-> isBatch]

MethodNotSupported(r) ==
  formatTRPCErrorResponse("METHOD_NOT_SUPPORTED", "Method not allowed", 405, r.batch)
InvalidFormat(r) ==
  formatTRPCErrorResponse("BAD_REQUEST", "Invalid request format", 400, r.batch)
MissingNoteId(r) ==
  formatTRPCErrorResponse("BAD_REQUEST", "Invalid request format: missing noteId",
                          400, r.batch)
ValidationError(r) ==
  formatTRPCErrorResponse("BAD_REQUEST", "Validation error", 400, r.batch)
Conflict(r) ==
  formatTRPCErrorResponse("CONFLICT", "Note with that title already exists", 409,
                          r.batch)
NotFound(r) ==
  formatTRPCErrorResponse("NOT_FOUND", "Note with that ID not found", 404, r.batch)
\* result.one() on an empty result throws; the catch-all turns it into a 500.
NoRowError(r) ==
  formatTRPCErrorResponse("INTERNAL_SERVER_ERROR",
                          "Expected exactly one result from SQL query", 500, r.batch)

\* The handler returns its Response.
Answer(p, op, r, response) ==
  /\ pc' = [pc EXCEPT ![p] = "done"]
  /\ req' = [req EXCEPT ![p] = [op |-> op, r |-> r]]
  /\ resp' = [resp EXCEPT ![p] = response]

\* An error answer that also empties the table.
RejectAndClear(p, op, r, response) ==
  /\ Answer(p, op, r, response)
  /\ fresh' = NoFresh
  /\ notes' = <<>>
  /\ UNCHANGED <<nextId, now, deleted>>

\* An answer that leaves the table as it is.
Reject(p, op, r, response) ==
  /\ Answer(p, op, r, response)
  /\ fresh' = NoFresh
  /\ UNCHANGED <<notes, nextId, now, deleted>>

(***************************************************************************)
(* The table                                                               *)
(***************************************************************************)
\* SELECT COUNT(*) as count FROM notes WHERE title = ?; count > 0
titleExists(title) == \E id \in DOMAIN notes : notes[id].title = title

\* A table created without the UNIQUE constraint.
NoUniqueConstraint(title, except) == FALSE

\* title TEXT UNIQUE: a statement that would give a row a title some row other
\* than the ones in `except` holds fails with "UNIQUE constraint failed".
UniqueConstraintFailed(title, except) ==
  \E other \in DOMAIN notes \ except : notes[other].title = title

\* crypto.randomUUID(): an id no note has had.
randomUUID == UUIDs[nextId]

\* SELECT * FROM notes WHERE id = ?  (the ids of the rows found)
SelectById(noteId) ==
  IF noteId.k = "string" /\ noteId.s \in DOMAIN notes THEN {noteId.s} ELSE {}

mapSqliteRow(id, row) ==
  [id |-> id, title |-> row.title, content |-> row.content,
   category |-> IF Truthy(row.category) THEN row.category ELSE Undefined,
   published |-> row.published = 1,
   createdAt |-> row.createdAt, updatedAt |-> row.updatedAt]

(***************************************************************************)
(* createNote                                                              *)
(***************************************************************************)
\* The row INSERT stores for a validated input (lines 278-282).
InsertRow(input) ==
  [title |-> Field(input, "title").s,
   content |-> Field(input, "content").s,
   category |-> IF Truthy(Field(input, "category")) THEN Field(input, "category")
                ELSE JNull,
   published |-> IF Truthy(Field(input, "published")) THEN 1 ELSE 0,
   createdAt |-> now, updatedAt |-> now]

\* Lines 243-272: up to the `await this.titleExists(...)`.
createNote(p, r) ==
  /\ pc[p] = "idle"
  /\ LET input == Field(parseInput(r), "input") IN
     IF r.method # "POST"
     THEN Reject(p, "createNote", r, MethodNotSupported(r))
     ELSE IF ~Truthy(input) \/ ~TypeofObject(input)
     THEN Reject(p, "createNote", r, InvalidFormat(r))
     ELSE IF createNoteSchemaIssues(input) # {}
     THEN Reject(p, "createNote", r, ValidationError(r))
     ELSE IF titleExists(Field(input, "title").s)
     THEN Reject(p, "createNote", r, Conflict(r))
     ELSE /\ pc' = [pc EXCEPT ![p] = "insert"]
          /\ req' = [req EXCEPT ![p] = [op |-> "createNote", r |-> r]]
          /\ UNCHANGED <<notes, nextId, now, resp, fresh, deleted>>

\* The constraint failure left to the catch-all as an unrecognised error.
InsertFailedUncaught(r) ==
  formatTRPCErrorResponse("INTERNAL_SERVER_ERROR",
                          "UNIQUE constraint failed: notes.title", 500, r.batch)

\* Lines 283-293: the INSERT threw "UNIQUE constraint failed".
InsertFailed(r) == Conflict(r)

\* Lines 274-306: after the await, the INSERT under the UNIQUE constraint.
createNoteInsert(p) ==
  /\ pc[p] = "insert"
  /\ LET r == req[p].r
         input == Field(parseInput(r), "input")
         id == randomUUID
     IN IF UniqueConstraintFailed(Field(input, "title").s, {})
        THEN Reject(p, "createNote", r, InsertFailed(r))
        ELSE /\ notes' = (id :> InsertRow(input)) @@ notes
             /\ nextId' = nextId + 1
             /\ fresh' = [id |-> id, input |-> input]
             /\ Answer(p, "createNote", r,
                  formatTRPCResponse(
                    [status |-> "success",
                     note |-> mapSqliteRow(id, InsertRow(input))], r.batch))
             /\ UNCHANGED <<now, deleted>>

(***************************************************************************)
(* updateNote                                                              *)
(***************************************************************************)
\* An UPDATE that writes all four columns, an absent one as its empty value.
UpdatedRowAll(row, updateData) ==
  [title |-> IF Field(updateData, "title") # Undefined
             THEN Field(updateData, "title").s ELSE row.title,
   content |-> IF Field(updateData, "content") # Undefined
               THEN Field(updateData, "content").s ELSE row.content,
   category |-> IF Field(updateData, "category") # Undefined
                THEN Field(updateData, "category") ELSE JNull,
   published |-> IF Truthy(Field(updateData, "published")) THEN 1 ELSE 0,
   createdAt |-> row.createdAt,
   updatedAt |-> now]

\* Lines 396-420: the columns UPDATE sets, from the fields that are present.
UpdatedRow(row, updateData) ==
  [title |-> IF Field(updateData, "title") # Undefined
             THEN Field(updateData, "title").s ELSE row.title,
   content |-> IF Field(updateData, "content") # Undefined
               THEN Field(updateData, "content").s ELSE row.content,
   category |-> IF Field(updateData, "category") # Undefined
                THEN Field(updateData, "category") ELSE row.category,
   published |-> IF Field(updateData, "published") # Undefined
                 THEN (IF Truthy(Field(updateData, "published")) THEN 1 ELSE 0)
                 ELSE row.published,
   createdAt |-> row.createdAt,
   updatedAt |-> now]

\* data.input.body || {}
UpdateData(input) ==
  IF Truthy(Field(input, "body")) THEN Field(input, "body") ELSE EmptyObj

\* UPDATE ... SET title = ? fails when another row holds the title.
UniqueViolated(id, updateData) ==
  /\ Field(updateData, "title") # Undefined
  /\ UniqueConstraintFailed(Field(updateData, "title").s, {id})

\* The pre-check run whenever a title is given, also the note's own.
TitleGiven(updateData, currentTitle) == Field(updateData, "title") # Undefined

\* Lines 379-386: updateData.title !== undefined, and !== currentTitle.
TitleChanged(updateData, currentTitle) ==
  /\ Field(updateData, "title") # Undefined
  /\ Field(updateData, "title").s # currentTitle

\* Lines 424-437: the UPDATE, the SELECT of the row, the response.
updateNoteWrite(p, r) ==
  LET input == Field(parseInput(r), "input")
      noteId == Field(Field(input, "params"), "noteId")
      updateData == UpdateData(input)
      found == SelectById(noteId)
  IN IF found = {}
     THEN Reject(p, "updateNote", r, NoRowError(r))
     ELSE LET id == CHOOSE x \in found : TRUE IN
          IF UniqueViolated(id, updateData)
          THEN Reject(p, "updateNote", r, Conflict(r))
          ELSE /\ notes' = [notes EXCEPT ![id] = UpdatedRow(notes[id], updateData)]
               /\ fresh' = NoFresh
               /\ Answer(p, "updateNote", r,
                    formatTRPCResponse(
                      [status |-> "success",
                       note |-> mapSqliteRow(id, UpdatedRow(notes[id], updateData))],
                      r.batch))
               /\ UNCHANGED <<nextId, now, deleted>>

\* Lines 341-394, and on to the UPDATE when no `await` comes in between.
updateNote(p, r) ==
  /\ pc[p] = "idle"
  /\ LET input == Field(parseInput(r), "input")
         noteId == Field(Field(input, "params"), "noteId")
         updateData == UpdateData(input)
         found == SelectById(noteId)
     IN
     IF r.method # "POST"
     THEN Reject(p, "updateNote", r, MethodNotSupported(r))
     ELSE IF ~Truthy(input) \/ ~Truthy(Field(input, "params")) \/ ~Truthy(noteId)
     THEN Reject(p, "updateNote", r, MissingNoteId(r))
     ELSE IF updateNoteSchemaIssues(updateData) # {}
     THEN Reject(p, "updateNote", r, ValidationError(r))
     ELSE IF found = {}
     THEN Reject(p, "updateNote", r, NotFound(r))
     ELSE LET id == CHOOSE x \in found : TRUE IN
          IF TitleChanged(updateData, notes[id].title)
          THEN IF titleExists(Field(updateData, "title").s)
               THEN Reject(p, "updateNote", r, Conflict(r))
               ELSE /\ pc' = [pc EXCEPT ![p] = "write"]
                    /\ req' = [req EXCEPT ![p] = [op |-> "updateNote", r |-> r]]
                    /\ UNCHANGED <<notes, nextId, now, resp, fresh, deleted>>
          ELSE updateNoteWrite(p, r)

\* The rest of updateNote once `await this.titleExists(...)` has resumed.
updateNoteResume(p) ==
  /\ pc[p] = "write"
  /\ updateNoteWrite(p, req[p].r)

(***************************************************************************)
(* deleteNote, getNote, getNotes                                           *)
(***************************************************************************)
\* A delete that removes no row.
DeleteNothing(found) == notes

\* DELETE FROM notes WHERE id = ?
DeleteRows(found) == [id \in DOMAIN notes \ found |-> notes[id]]

deleteNote(p, r) ==
  /\ pc[p] = "idle"
  /\ LET input == Field(parseInput(r), "input")
         noteId == Field(input, "noteId")
         found == SelectById(noteId)
     IN
     IF r.method # "POST"
     THEN Reject(p, "deleteNote", r, MethodNotSupported(r))
     ELSE IF ~Truthy(input) \/ ~Truthy(noteId)
     THEN Reject(p, "deleteNote", r, MissingNoteId(r))
     ELSE IF found = {}
     THEN Reject(p, "deleteNote", r, NotFound(r))
     ELSE /\ notes' = DeleteRows(found)
          /\ deleted' = deleted \cup {[id |-> id, title |-> notes[id].title] :
                                        id \in found}
          /\ fresh' = NoFresh
          /\ Answer(p, "deleteNote", r,
               formatTRPCResponse([status |-> "success"], r.batch))
          /\ UNCHANGED <<nextId, now>>

\* getNote reads only: it answers and leaves everything else as it is.
getNote(p, r) ==
  /\ pc[p] = "idle"
  /\ LET input == Field(parseInput(r), "input")
         noteId == Field(input, "noteId")
         found == SelectById(noteId)
     IN
     /\ IF ~Truthy(input) \/ ~Truthy(noteId)
        THEN Answer(p, "getNote", r, MissingNoteId(r))
        ELSE IF found = {}
        THEN Answer(p, "getNote", r, NotFound(r))
        ELSE LET id == CHOOSE x \in found : TRUE IN
             Answer(p, "getNote", r,
               formatTRPCResponse(
                 [status |-> "success", note |-> mapSqliteRow(id, notes[id])],
                 r.batch))
     /\ UNCHANGED <<notes, nextId, now, fresh, deleted>>

\* The orders ORDER BY createdAt DESC may return the rows in: rows with equal
\* createdAt come in an order SQL leaves open.
NewestFirst ==
  {s \in [1..Cardinality(DOMAIN notes) -> DOMAIN notes] :
     /\ \A i, j \in DOMAIN s : i # j => s[i] # s[j]
     /\ \A i, j \in DOMAIN s :
          i < j => notes[s[i]].createdAt >= notes[s[j]].createdAt}

Min(a, b) == IF a < b THEN a ELSE b

\* LIMIT ? OFFSET ? as SQLite reads them: a negative LIMIT is no limit, a
\* negative OFFSET is 0.
LimitOffset(s, limit, offset) ==
  LET from == IF offset < 0 THEN 0 ELSE offset
      to == IF limit < 0 THEN Len(s) ELSE Min(from + limit, Len(s))
  IN SubSeq(s, from + 1, to)

DefaultPage == 1
DefaultLimit == 10

\* data.input?.page || 1 and data.input?.limit || 10
PageOf(input) ==
  IF Truthy(OptField(input, "page")) THEN OptField(input, "page")
  ELSE JNum(DefaultPage)

LimitOf(input) ==
  IF Truthy(OptField(input, "limit")) THEN OptField(input, "limit")
  ELSE JNum(DefaultLimit)

\* An offset that counts pages from 0.
OffsetFromZero(page, limit) == page * limit

\* const offset = (page - 1) * limit
OffsetOf(page, limit) == (page - 1) * limit

\* The requests getNotes is given here carry integers (or nothing) as page
\* and limit.
getNotes(p, r) ==
  /\ pc[p] = "idle"
  /\ LET input == Field(parseInput(r), "input")
         page == PageOf(input)
         limit == LimitOf(input)
     IN
     /\ page.k = "number" /\ limit.k = "number"
     /\ \E s \in NewestFirst :
          LET rows == LimitOffset(s, limit.n, OffsetOf(page.n, limit.n))
              found == [i \in DOMAIN rows |-> mapSqliteRow(rows[i], notes[rows[i]])]
          IN Answer(p, "getNotes", r,
               formatTRPCResponse(
                 [status |-> "success", results |-> Len(found), notes |-> found],
                 r.batch))
     /\ fresh' = NoFresh
     /\ UNCHANGED <<notes, nextId, now, deleted>>

\* Line 220-221: getHello answers a fixed payload to any method and reads
\* nothing.
getHello(p, r) ==
  /\ pc[p] = "idle"
  /\ Answer(p, "getHello", r,
       formatTRPCResponse([message |-> "Welcome to Full-Stack tRPC CRUD App"],
                          r.batch))
  /\ UNCHANGED <<notes, nextId, now, fresh, deleted>>

(***************************************************************************)
(* The environment                                                         *)
(***************************************************************************)
\* The response has been sent: the slot is free for the next request.
Close(p) ==
  /\ pc[p] = "done"
  /\ pc' = [pc EXCEPT ![p] = "idle"]
  /\ req' = [req EXCEPT ![p] = NoReq]
  /\ resp' = [resp EXCEPT ![p] = NoResp]
  /\ UNCHANGED <<notes, nextId, now, fresh, deleted>>

\* Time passes.
Tick(max) ==
  /\ now < max
  /\ now' = now + 1
  /\ UNCHANGED <<notes, nextId, pc, req, resp, fresh, deleted>>

(***************************************************************************)
(* Requests the specifications send                                        *)
(***************************************************************************)
PostJson(v) ==
  [method |-> "POST", batch |-> FALSE, query |-> Absent,
   ctype |-> "application/json", body |-> Json(v)]

GetInput(v) ==
  [method |-> "GET", batch |-> FALSE, query |-> Json(v), ctype |-> "",
   body |-> Absent]

\* An object with the given fields, leaving out those that are Undefined.
Obj(full) == JObj([n \in {m \in DOMAIN full : full[m] # Undefined} |-> full[n]])

NoteInput(title, content, category, published) ==
  Obj([title |-> title, content |-> content, category |-> category,
       published |-> published])

UpdateInput(id, body) ==
  JObj([params |-> JObj([noteId |-> JStr(id)]), body |-> body])

IdInput(id) == JObj([noteId |-> JStr(id)])

\* POST requests whose payload cannot be decoded.
Undecodable ==
  {[method |-> "POST", batch |-> FALSE, query |-> Absent,
    ctype |-> "application/json", body |-> Garbage],
   [method |-> "POST", batch |-> FALSE, query |-> Absent,
    ctype |-> "text/plain", body |-> Json(NoteInput(JStr("A"), JStr("x"),
                                                    Undefined, Undefined))],
   [method |-> "POST", batch |-> TRUE, query |-> Absent,
    ctype |-> "", body |-> Absent]}

MaxIds == 2
Titles == {"", "A", "B"}
Ids == {UUIDs[i] : i \in 1..MaxIds}

\* A create may start while an id is left for it.
IdsLeft(max) == nextId + Cardinality({q \in Procs : pc[q] = "insert"}) <= max

CreateRequests ==
  {PostJson(NoteInput(JStr(t), JStr("x"), Undefined, Undefined)) : t \in Titles}
    \cup Undecodable
    \cup {PostJson(NoteInput(Undefined, JStr("x"), Undefined, Undefined)),
          PostJson(JStr("A")),
          GetInput(NoteInput(JStr("A"), JStr("x"), Undefined, Undefined))}

UpdateRequests ==
  {PostJson(UpdateInput(id, Obj([title |-> t]))) :
     id \in Ids, t \in {Undefined} \cup {JStr(t) : t \in Titles}}
    \cup {PostJson(UpdateInput(id, Obj([title |-> JStr("A"), content |-> JNum(7)]))) :
            id \in Ids}
    \cup {GetInput(UpdateInput(UUIDs[1], EmptyObj)),
          PostJson(JObj([body |-> EmptyObj]))}

DeleteRequests ==
  {PostJson(IdInput(id)) : id \in Ids}
    \cup {GetInput(IdInput(UUIDs[1])), PostJson(EmptyObj)}

GetNoteRequests ==
  {GetInput(IdInput(id)) : id \in Ids} \cup {PostJson(IdInput(UUIDs[1])),
                                             GetInput(EmptyObj)}

Create(p) == \E r \in CreateRequests : IdsLeft(MaxIds) /\ createNote(p, r)
Update(p) == \E r \in UpdateRequests : updateNote(p, r)
Delete(p) == \E r \in DeleteRequests : deleteNote(p, r)
GetNote(p) == \E r \in GetNoteRequests : getNote(p, r)

Next ==
  \E p \in Procs :
    \/ Create(p)
    \/ createNoteInsert(p)
    \/ Update(p)
    \/ updateNoteResume(p)
    \/ Delete(p)
    \/ GetNote(p)
    \/ Close(p)

Spec == Init /\ [][Next]_vars

(***************************************************************************)
(* What the claims speak of                                                *)
(***************************************************************************)
\* Slot p's handler returns its response in this step.
Answered(p) == pc[p] # "done" /\ pc'[p] = "done"

\* The stored notes that hold a title.
Holders(title) == {id \in DOMAIN notes : notes[id].title = title}

InputOf(r) == Field(parseInput(r), "input")

\* A createNote request that passes the method check, decoding and validation.
WellFormedCreate(r) ==
  /\ r.method = "POST"
  /\ Truthy(InputOf(r)) /\ TypeofObject(InputOf(r))
  /\ createNoteSchemaIssues(InputOf(r)) = {}

TitleOf(r) == Field(InputOf(r), "title").s

IsCreateOf(p, title) ==
  /\ req[p].op = "createNote"
  /\ WellFormedCreate(req[p].r)
  /\ TitleOf(req[p].r) = title

\* The id a request addresses, as a JSON value.
NoteIdOf(q) ==
  IF q.op = "updateNote" THEN Field(Field(InputOf(q.r), "params"), "noteId")
  ELSE Field(InputOf(q.r), "noteId")

BodyOf(r) == UpdateData(InputOf(r))

\* A getNote, updateNote or deleteNote request on note `id` that passes the
\* method check, decoding and validation.
WellFormedOn(q, id) ==
  /\ q.op \in {"getNote", "updateNote", "deleteNote"}
  /\ q.op # "getNote" => q.r.method = "POST"
  /\ NoteIdOf(q) = JStr(id)
  /\ id # ""
  /\ q.op = "updateNote" => updateNoteSchemaIssues(BodyOf(q.r)) = {}

DeletedIds == {d.id : d \in deleted}

UniqueTitles ==
  \A a, b \in DOMAIN notes : a # b => notes[a].title # notes[b].title

\* C1. Title uniqueness: no two stored notes ever have equal titles, and a
\* createNote whose title a stored note holds is answered CONFLICT (409) and
\* stores no second note.
C1_TitleUniqueness ==
  [][/\ UniqueTitles'
     /\ \A p \in Procs :
          (/\ Answered(p)
           /\ req'[p].op = "createNote"
           /\ WellFormedCreate(req'[p].r)
           /\ Holders(TitleOf(req'[p].r)) # {})
          => /\ resp'[p].status = 409
             /\ resp'[p].code = "CONFLICT"
             /\ notes' = notes]_vars

C1_Witness ==
  \E p \in Procs :
    /\ pc[p] = "done"
    /\ req[p].op = "createNote"
    /\ WellFormedCreate(req[p].r)
    /\ resp[p].status = 409
    /\ Cardinality(Holders(TitleOf(req[p].r))) = 1
    /\ Cardinality(DOMAIN notes) = 2

\* C2. Create race: of two createNote requests with one title that both passed
\* the titleExists pre-check before either inserted, the first to insert
\* succeeds and the other is answered CONFLICT (409), not
\* INTERNAL_SERVER_ERROR, and one note with that title is stored.
C2_CreateRace ==
  [][\A p, q \in Procs :
       (/\ p # q
        /\ pc[p] = "insert"
        /\ Answered(p)
        /\ IsCreateOf(q, TitleOf(req[p].r)))
       => /\ pc[q] = "insert"
             => /\ resp'[p].status = 200
                /\ Cardinality(Holders(TitleOf(req[p].r))') = 1
          /\ (/\ pc[q] = "done"
              /\ resp[q].status = 200
              /\ resp[q].data.note.id \in Holders(TitleOf(req[p].r)))
             => /\ resp'[p].status = 409
                /\ resp'[p].code = "CONFLICT"
                /\ notes' = notes
                /\ Cardinality(Holders(TitleOf(req[p].r))') = 1]_vars

\* Both requests are past the pre-check, one has inserted, the other is about to.
C2_Witness ==
  \E p, q \in Procs :
    /\ p # q
    /\ pc[p] = "insert"
    /\ pc[q] = "done"
    /\ IsCreateOf(q, TitleOf(req[p].r))
    /\ resp[q].status = 200
    /\ resp[q].data.note.id \in Holders(TitleOf(req[p].r))

\* C3. Update title rule: an updateNote of a stored note N whose body.title is
\* N's current title is not answered CONFLICT and succeeds; one whose
\* body.title differs is answered CONFLICT (409) exactly when another stored
\* note holds that title, and then no note changes.
C3_UpdateTitleRule ==
  [][\A p \in Procs : \A id \in DOMAIN notes :
       (/\ Answered(p)
        /\ req'[p].op = "updateNote"
        /\ WellFormedOn(req'[p], id)
        /\ Field(BodyOf(req'[p].r), "title") # Undefined)
       => LET title == Field(BodyOf(req'[p].r), "title").s IN
          /\ title = notes[id].title => resp'[p].status = 200
          /\ title # notes[id].title
             => /\ resp'[p].status = 409 <=> Holders(title) \ {id} # {}
                /\ resp'[p].status # 409 => resp'[p].status = 200
          /\ resp'[p].status = 409
             => resp'[p].code = "CONFLICT" /\ notes' = notes]_vars

\* A retitling to the note's own title has succeeded while another note exists.
C3_Witness ==
  \E p \in Procs : \E id \in DOMAIN notes :
    /\ pc[p] = "done"
    /\ req[p].op = "updateNote"
    /\ WellFormedOn(req[p], id)
    /\ Field(BodyOf(req[p].r), "title") = JStr(notes[id].title)
    /\ resp[p].status = 200
    /\ Cardinality(DOMAIN notes) = 2

\* C7. Deletion finality: once deleteNote has removed note X, every getNote,
\* updateNote and deleteNote on X that arrives later is answered NOT_FOUND (404),
\* X is never stored again, and a createNote with the removed note's title
\* succeeds when no stored note holds that title.
C7_DeletionFinality ==
  [][/\ \A d \in deleted' : d.id \notin DOMAIN notes'
     /\ \A p \in Procs : \A d \in deleted :
          (/\ pc[p] = "idle"
           /\ Answered(p)
           /\ WellFormedOn(req'[p], d.id))
          => /\ resp'[p].status = 404
             /\ resp'[p].code = "NOT_FOUND"
     /\ \A p \in Procs : \A d \in deleted :
          (/\ Answered(p)
           /\ req'[p].op = "createNote"
           /\ WellFormedCreate(req'[p].r)
           /\ TitleOf(req'[p].r) = d.title
           /\ Holders(d.title) = {})
          => /\ resp'[p].status = 200
             /\ resp'[p].data.note.id \notin DeletedIds
             /\ Holders(d.title)' = {resp'[p].data.note.id}]_vars

\* A removed note's title has been used again by a new note, and a request on
\* the removed id has been answered 404.
C7_Witness ==
  \E p, q \in Procs : \E d \in deleted :
    /\ pc[p] = "done" /\ pc[q] = "done"
    /\ IsCreateOf(p, d.title)
    /\ resp[p].status = 200
    /\ WellFormedOn(req[q], d.id)
    /\ resp[q].status = 404

\* A createNote request whose payload cannot be decoded.
DecodeFails(r) ==
  /\ r.method = "POST"
  /\ ~(IsJsonContentType(r.ctype) /\ JSONparse(r.body).ok)

C9_NonEmptyTitles == \A id \in DOMAIN notes : notes[id].title # ""

(***************************************************************************)
(* SpecFields: one client; notes with every combination of field values,   *)
(* and a clock that advances.                                              *)
(***************************************************************************)
MaxTime == 1
FieldTitles == {"A", "B"}
Categories == {"", "c"}

\* Two titles: at most the first two ids are ever stored.
FieldIds == {UUIDs[1], UUIDs[2]}

Optional(S) == {Undefined} \cup S

FieldCreateRequests ==
  {PostJson(NoteInput(JStr(t), JStr(c), g, b)) :
     t \in FieldTitles, c \in {"x"},
     g \in Optional({JStr(x) : x \in Categories}),
     b \in Optional({JBool(TRUE), JBool(FALSE)})}

FieldUpdateRequests ==
  {PostJson(UpdateInput(id, NoteInput(t, c, g, b))) :
     id \in FieldIds,
     t \in Optional({JStr(x) : x \in FieldTitles}),
     c \in Optional({JStr("y")}),
     g \in Optional({JStr(x) : x \in Categories}),
     b \in Optional({JBool(TRUE), JBool(FALSE)})}

FieldCreate == \E r \in FieldCreateRequests : IdsLeft(MaxIds) /\ createNote(1, r)
FieldInsert == createNoteInsert(1)
FieldUpdate == \E r \in FieldUpdateRequests : updateNote(1, r)
FieldResume == updateNoteResume(1)
FieldGetNote == \E id \in FieldIds : getNote(1, GetInput(IdInput(id)))
FieldClose == Close(1)
FieldTick == Tick(MaxTime)

NextFields ==
  \/ FieldCreate
  \/ FieldInsert
  \/ FieldUpdate
  \/ FieldResume
  \/ FieldGetNote
  \/ FieldClose
  \/ FieldTick

SpecFields == Init /\ [][NextFields]_vars

Present(body, name) == Field(body, name) # Undefined

\* C4. Partial update: a successful updateNote on note N sets the fields among
\* title, content, category, published that its body holds, and updatedAt;
\* N's id, createdAt and absent fields keep their values; no other note
\* changes.
C4_PartialUpdate ==
  [][\A p \in Procs :
       (/\ Answered(p)
        /\ req'[p].op = "updateNote"
        /\ resp'[p].status = 200)
       => LET id == NoteIdOf(req'[p]).s
              body == BodyOf(req'[p].r)
          IN /\ id \in DOMAIN notes
             /\ DOMAIN notes' = DOMAIN notes
             /\ \A other \in DOMAIN notes \ {id} : notes'[other] = notes[other]
             /\ notes'[id].title =
                  IF Present(body, "title") THEN Field(body, "title").s
                  ELSE notes[id].title
             /\ notes'[id].content =
                  IF Present(body, "content") THEN Field(body, "content").s
                  ELSE notes[id].content
             /\ notes'[id].category =
                  IF Present(body, "category") THEN Field(body, "category")
                  ELSE notes[id].category
             /\ notes'[id].published =
                  IF Present(body, "published")
                  THEN (IF Field(body, "published").b THEN 1 ELSE 0)
                  ELSE notes[id].published
             /\ notes'[id].createdAt = notes[id].createdAt
             /\ notes'[id].updatedAt = now
             /\ resp'[p].data.note.id = id]_vars

\* An update with an empty body has succeeded on a note that has a category
\* and is published, after the clock moved, while another note is stored.
C4_Witness ==
  \E p \in Procs :
    /\ pc[p] = "done"
    /\ req[p].op = "updateNote"
    /\ resp[p].status = 200
    /\ BodyOf(req[p].r) = EmptyObj
    /\ LET id == NoteIdOf(req[p]).s IN
       /\ id \in DOMAIN notes
       /\ notes[id].updatedAt > notes[id].createdAt
       /\ notes[id].category = JStr("c")
       /\ notes[id].published = 1
    /\ Cardinality(DOMAIN notes) = 2

\* C5. Round-trip: getNote right after a successful createNote returns the
\* title, content, category and published of the create input (published false
\* when the input has none), and equal createdAt and updatedAt.
C5_RoundTrip ==
  \A p \in Procs :
    (/\ pc[p] = "done"
     /\ req[p].op = "getNote"
     /\ resp[p].status = 200
     /\ fresh.id = resp[p].data.note.id)
    => LET note == resp[p].data.note IN
       /\ note.title = Field(fresh.input, "title").s
       /\ note.content = Field(fresh.input, "content").s
       /\ note.category = Field(fresh.input, "category")
       /\ note.published = Truthy(Field(fresh.input, "published"))
       /\ note.createdAt = note.updatedAt

(***************************************************************************)
(* SpecPage: one client creates notes as the clock advances and lists them *)
(* page by page.                                                           *)
(***************************************************************************)
MaxPageNotes == 3
PageTitles == <<"A", "B", "C", "D", "E">>

PageCreateRequests ==
  {PostJson(NoteInput(JStr(PageTitles[i]), JStr("x"), Undefined, Undefined)) :
     i \in 1..MaxPageNotes}

Limits == {0, 1, 2, -1}
Pages == {0, 1, 2, 3, -1}

GetNotesRequests ==
  {GetInput(Obj([limit |-> l, page |-> g])) :
     l \in Optional({JNum(n) : n \in Limits}),
     g \in Optional({JNum(n) : n \in Pages})}
    \cup {[method |-> "GET", batch |-> FALSE, query |-> Absent, ctype |-> "",
           body |-> Absent]}

PageCreate == \E r \in PageCreateRequests : IdsLeft(MaxPageNotes) /\ createNote(1, r)
PageInsert == createNoteInsert(1)
PageGetNotes == \E r \in GetNotesRequests : getNotes(1, r)
PageClose == Close(1)
PageTick == Tick(MaxTime)

NextPage ==
  \/ PageCreate
  \/ PageInsert
  \/ PageGetNotes
  \/ PageClose
  \/ PageTick

SpecPage == Init /\ [][NextPage]_vars

\* All stored notes, each once, newest first.
FullNewestFirst ==
  {s \in [1..Cardinality(DOMAIN notes) -> DOMAIN notes] :
     /\ {s[i] : i \in DOMAIN s} = DOMAIN notes
     /\ \A i \in DOMAIN s :
          i > 1 => notes[s[i - 1]].createdAt >= notes[s[i]].createdAt}

\* The elements of s at the positions lo+1 .. hi (positions counted from 1).
Slice(s, lo, hi) ==
  LET at == {i \in DOMAIN s : lo < i /\ i <= hi}
      skip == Cardinality({i \in DOMAIN s : i <= lo})
  IN [j \in 1..Cardinality(at) |-> s[skip + j]]

\* page and limit as the claim reads them: absent or falsy is 1 and 10.
ClaimedPage(r) ==
  IF Truthy(OptField(InputOf(r), "page")) THEN OptField(InputOf(r), "page").n ELSE 1
ClaimedLimit(r) ==
  IF Truthy(OptField(InputOf(r), "limit")) THEN OptField(InputOf(r), "limit").n
  ELSE 10

\* getNotes has returned the slice [(P-1)*L, P*L) of the notes, newest first.
ReturnedPage(p) ==
  LET L == ClaimedLimit(req[p].r)
      P == ClaimedPage(req[p].r)
      got == resp[p].data.notes
  IN /\ resp[p].status = 200
     /\ resp[p].data.results = Len(got)
     /\ Len(got) <= L
     /\ \A i \in DOMAIN got : i > 1 => got[i - 1].createdAt >= got[i].createdAt
     /\ \E s \in FullNewestFirst :
          got = [i \in DOMAIN Slice(s, (P - 1) * L, P * L) |->
                   mapSqliteRow(Slice(s, (P - 1) * L, P * L)[i],
                                notes[Slice(s, (P - 1) * L, P * L)[i]])]

\* C6 as stated. Pagination, for every limit L and page P in the input.
C6_AsStated ==
  \A p \in Procs :
    (pc[p] = "done" /\ req[p].op = "getNotes") => ReturnedPage(p)

\* C6, amended. Pagination: for every positive limit L and positive page P
\* (1 and 10 when absent or falsy), getNotes returns at most L notes, newest
\* first, the slice [(P-1)*L, P*L) of all stored notes ordered newest first,
\* and results is their number.
C6_Pagination ==
  \A p \in Procs :
    (/\ pc[p] = "done"
     /\ req[p].op = "getNotes"
     /\ ClaimedLimit(req[p].r) > 0
     /\ ClaimedPage(req[p].r) > 0)
    => ReturnedPage(p)

\* The second page of three notes, one note a page, two of them created at
\* the same time.
C6_Witness ==
  \E p \in Procs :
    /\ pc[p] = "done"
    /\ req[p].op = "getNotes"
    /\ ClaimedLimit(req[p].r) = 1
    /\ ClaimedPage(req[p].r) = 2
    /\ resp[p].data.results = 1
    /\ Cardinality(DOMAIN notes) = 3
    /\ Cardinality({notes[id].createdAt : id \in DOMAIN notes}) = 2

(***************************************************************************)
(* SpecDecode: parseInput applied to requests of every method, with and    *)
(* without the batch flag, over a set of raw values.                       *)
(***************************************************************************)
SomeNote == NoteInput(JStr("A"), JStr("x"), Undefined, Undefined)

RawValues ==
  {JNull, JNum(0), JNum(5), JStr(""), JStr("abc"), JBool(FALSE), JBool(TRUE),
   EmptyObj, SomeNote,
   JObj([input |-> SomeNote]), JObj([input |-> JNull]), JObj([input |-> JNum(0)]),
   JObj("0" :> SomeNote), JObj("0" :> JNull),
   JObj(("0" :> SomeNote) @@ [input |-> EmptyObj]),
   JObj("0" :> JObj([input |-> SomeNote])),
   JArr("0" :> SomeNote), JObj("1" :> SomeNote)}

Texts == {Absent, EmptyText, Garbage} \cup {Json(v) : v \in RawValues}

DecodeRequests ==
  {[method |-> "GET", batch |-> b, query |-> t, ctype |-> "", body |-> Absent] :
     b \in BOOLEAN, t \in Texts}
    \cup {[method |-> m, batch |-> b, query |-> Absent, ctype |-> c, body |-> t] :
            m \in {"POST", "PUT", "DELETE"}, b \in BOOLEAN,
            c \in JsonTypes \cup {"text/plain", ""}, t \in Texts}

\* parseInput runs for a request and its result is kept.
Decode ==
  /\ pc[1] = "idle"
  /\ \E r \in DecodeRequests :
       /\ req' = [req EXCEPT ![1] = [op |-> "parseInput", r |-> r]]
       /\ resp' = [resp EXCEPT ![1] = [payload |-> parseInput(r)]]
  /\ pc' = [pc EXCEPT ![1] = "done"]
  /\ UNCHANGED <<notes, nextId, now, fresh, deleted>>

DecodeClose == Close(1)

NextDecode ==
  \/ Decode
  \/ DecodeClose

SpecDecode == Init /\ [][NextDecode]_vars

\* The text a request's payload is read from.
PayloadText(r) == IF r.method = "GET" THEN r.query ELSE r.body

\* The request is one of the failures: an unsupported method, a content type
\* that is not JSON, a text that is not JSON.
DecodeFailure(r) ==
  \/ r.method \notin {"GET", "POST"}
  \/ r.method = "POST" /\ r.ctype \notin JsonTypes
  \/ PayloadText(r).t # "json"

HasKey(v, name) == v.k \in {"object", "array"} /\ name \in DOMAIN v.f

\* C10. Request decoder: a GET without an input parameter, and every failure,
\* yields {input: {}}; otherwise, in batch mode a raw object with key "0"
\* yields that key's value as the payload, else a raw value with a field
\* `input` is returned as it is, and any other raw value V yields {input: V}.
C10_RequestDecoder ==
  (pc[1] = "done" /\ req[1].op = "parseInput")
  => LET r == req[1].r
         out == resp[1].payload
         V == PayloadText(r).val
     IN IF (r.method = "GET" /\ r.query = Absent) \/ DecodeFailure(r)
        THEN out = JObj([input |-> EmptyObj])
        ELSE IF r.batch /\ HasKey(V, "0")
        THEN out = JObj([input |-> V.f["0"]])
        ELSE IF HasKey(V, "input")
        THEN out = V
        ELSE out = JObj([input |-> V])

\* In batch mode, a raw object that has both the key "0" and a field `input`
\* has been decoded.
C10_Witness ==
  /\ pc[1] = "done"
  /\ req[1].op = "parseInput"
  /\ req[1].r.batch
  /\ ~DecodeFailure(req[1].r)
  /\ HasKey(PayloadText(req[1].r).val, "0")
  /\ HasKey(PayloadText(req[1].r).val, "input")
  /\ resp[1].payload = JObj([input |-> SomeNote])

(***************************************************************************)
(* Every endpoint together: what a request leaves in the table             *)
(***************************************************************************)
FrameGetNotesRequests ==
  {GetInput(EmptyObj), GetInput(JObj([page |-> JNum(2), limit |-> JNum(1)]))}

FrameHelloRequests == {GetInput(EmptyObj), PostJson(EmptyObj)}

FrameGetNotes(p) == \E r \in FrameGetNotesRequests : getNotes(p, r)
FrameHello(p) == \E r \in FrameHelloRequests : getHello(p, r)

NextFrame ==
  \E p \in Procs :
    \/ Create(p)
    \/ createNoteInsert(p)
    \/ Update(p)
    \/ updateNoteResume(p)
    \/ Delete(p)
    \/ GetNote(p)
    \/ FrameGetNotes(p)
    \/ FrameHello(p)
    \/ Close(p)

SpecFrame == Init /\ [][NextFrame]_vars

\* The response is one of the error envelopes.
ErrorEnvelope(response) ==
  response.code \in {"METHOD_NOT_SUPPORTED", "BAD_REQUEST", "NOT_FOUND", "CONFLICT",
                     "INTERNAL_SERVER_ERROR"}

Reads == {"getNote", "getNotes", "getHello"}
Writes == {"createNote", "updateNote", "deleteNote"}

\* C11: a request answered with an error envelope, and every getNote, getNotes
\* and getHello request, leaves the stored notes and all their fields as they
\* were; the table changes only in the step in which a createNote, updateNote
\* or deleteNote is answered with success.
C11_ErrorFrame ==
  [][/\ \A p \in Procs :
          Answered(p) /\ (ErrorEnvelope(resp'[p]) \/ req'[p].op \in Reads)
            => notes' = notes
     /\ notes' # notes
          => \E p \in Procs : /\ Answered(p)
                              /\ req'[p].op \in Writes
                              /\ resp'[p].status = 200
                              /\ ~ErrorEnvelope(resp'[p])]_vars

\* An updateNote whose row was deleted while it waited has been answered 500
\* and a getNotes has been answered, with a note in the table.
C11_Witness ==
  /\ DOMAIN notes # {}
  /\ \E p, q \in Procs :
       /\ pc[p] = "done" /\ req[p].op = "updateNote"
       /\ resp[p].code = "INTERNAL_SERVER_ERROR"
       /\ pc[q] = "done" /\ req[q].op = "getNotes"
       /\ resp[q].status = 200 /\ resp[q].data.results > 0

=============================================================================
